---- MODULE Spec2Model ----
(***************************************************************************)
(* MetaSignet: the verification ledger.                                    *)
(*                                                                         *)
(* The repository holds two ledgers that share no state:                   *)
(*   - app.py, MetaSignetApp: the per-session dictionary                   *)
(*     st.session_state.human_verified_content ("local verification"),     *)
(*     with placeholder blockchain branches taken when w3_connected;       *)
(*   - verification.py, ContentVerifier, over database.py: the hosted      *)
(*     table "verification", reached by concurrent callers, one storage    *)
(*     call per step.                                                      *)
(* app.py never imports verification.py or database.py, so a run drives    *)
(* one of the two; `entry` records which.                                  *)
(***************************************************************************)
EXTENDS Integers, FiniteSets, Sequences, TLC

VARIABLES entry, hash_seed, now, w3_connected, human_verified_content,
          table, pc, loc, ret, attested, session_state, api

vars == <<entry, hash_seed, now, w3_connected, human_verified_content, table,
          pc, loc, ret, attested, session_state, api>>

\* ------------------------------------------------------------------ bounds
MaxVouch == 4
MaxTime == 1
MaxSeed == 1
MaxImages == 2

\* ------------------------------------------------------------- input sets
Hashes == {"h1", "h2"}
Users == {"alice", "bob", "carol", "dave"}
Clients == {"c1", "c2"}

\* The attest calls made: (content_uri, user_id, creation_type,
\* creation_context), creation_type as creation_type_map of the page produces
\* it. MetaSignetApp.verify_human_content takes no user_id.
Payloads ==
  { [uri |-> "u1", user |-> "alice", type |-> 1, context |-> "ctx"],
    [uri |-> "u2", user |-> "bob", type |-> 2, context |-> ""],
    [uri |-> "u1", user |-> "alice", type |-> 3, context |-> ""] }

\* ret is what the step just taken returned to its caller: the returned
\* dictionary, with the call it answers (op, hash) and whether a storage call
\* raised during that call (fault). A step that returns nothing leaves NoReturn.
NoReturn == [op |-> "none"]

\* -------------------------------------------------------- program constants
VOUCH_THRESHOLD == 3
DB_SELF_ATTESTED == 1
DB_COMMUNITY_VOUCHED == 2

\* ------------------------------------------------------------------- clock

\* What a read of the clock (datetime.now(), the table's now()) can return:
\* the time of the last read or a later one. Only reads of the clock observe
\* the passing of time, so time passes at the reads.
ClockReads == now..MaxTime

\* ------------------------------------------------------------------- app.py

\* verify_human_content storing a record that starts with one vouch.
LocalRecord_OneVouch(content_hash, post_uri, creation_type, creation_context, t) ==
  [ hash |-> content_hash, uri |-> post_uri, type |-> creation_type,
    context |-> creation_context, timestamp |-> t,
    status |-> "SELF_ATTESTED", vouches |-> 1 ]

\* The record verify_human_content stores on the local path.
LocalRecord(content_hash, post_uri, creation_type, creation_context, t) ==
  [ hash |-> content_hash, uri |-> post_uri, type |-> creation_type,
    context |-> creation_context, timestamp |-> t,
    status |-> "SELF_ATTESTED", vouches |-> 0 ]

\* verify_human_content replacing the whole dictionary by the one record.
LocalStore_Reset(store, content_hash, rec) == [x \in {content_hash} |-> rec]

\* human_verified_content[content_hash] = {...}: a plain dictionary store.
LocalStore(store, content_hash, rec) ==
  [x \in DOMAIN store \cup {content_hash} |->
     IF x = content_hash THEN rec ELSE store[x]]

\* vouches += 1, then the threshold test, on the stored record.
LocalVouched(rec) ==
  LET n == rec.vouches + 1 IN
  [rec EXCEPT !.vouches = n,
              !.status = IF n >= VOUCH_THRESHOLD THEN "COMMUNITY_VOUCHED" ELSE @]

\* MetaSignetApp.initialize_web3, run by every construction of the app: the
\* session flag is set when the contract connects, cleared when the
\* initialisation raises, and otherwise left as it was.
InitializeWeb3 ==
  /\ entry = "app"
  /\ \E outcome \in {"connected", "raised"} :
       w3_connected' = (outcome = "connected")
  /\ ret' = NoReturn
  /\ UNCHANGED <<entry, api, session_state, attested, hash_seed, now, human_verified_content, table, pc, loc>>

\* MetaSignetApp.verify_human_content
AppVerifyHumanContent(content_hash, p) ==
  /\ entry = "app"
  /\ IF ~w3_connected
       THEN /\ \E t \in ClockReads :
                 /\ now' = t
                 /\ human_verified_content' =
                      LocalStore(human_verified_content, content_hash,
                                 LocalRecord(content_hash, p.uri, p.type,
                                             p.context, t))
            /\ ret' = [op |-> "attest", hash |-> content_hash,
                       fault |-> FALSE, success |-> TRUE,
                       message |-> "Content verified locally"]
       ELSE /\ UNCHANGED <<now, human_verified_content>>
            /\ ret' = [op |-> "attest", hash |-> content_hash,
                       fault |-> FALSE, success |-> TRUE,
                       message |-> "Content verified on blockchain"]
  /\ attested' = attested \cup {content_hash}
  /\ UNCHANGED <<entry, api, session_state, hash_seed, w3_connected, table, pc, loc>>

\* vouch_for_content without the membership test: a vouch on a fingerprint
\* that has no record makes one.
AppVouchForContent_Creates(content_hash) ==
  /\ entry = "app"
  /\ content_hash \in DOMAIN human_verified_content =>
       human_verified_content[content_hash].vouches < MaxVouch
  /\ human_verified_content' =
       LocalStore(human_verified_content, content_hash,
                  IF content_hash \in DOMAIN human_verified_content
                    THEN LocalVouched(human_verified_content[content_hash])
                    ELSE LocalVouched(LocalRecord(content_hash, "", 1, "", now)))
  /\ ret' = [op |-> "vouch", hash |-> content_hash,
             fault |-> FALSE, success |-> TRUE,
             vouches |-> human_verified_content'[content_hash].vouches]
  /\ UNCHANGED <<entry, api, session_state, attested, hash_seed, now, w3_connected, table, pc, loc>>

\* MetaSignetApp.vouch_for_content
AppVouchForContent(content_hash) ==
  /\ entry = "app"
  /\ IF ~w3_connected
       THEN IF content_hash \in DOMAIN human_verified_content
              THEN /\ human_verified_content[content_hash].vouches < MaxVouch
                   /\ human_verified_content' =
                        [human_verified_content EXCEPT
                           ![content_hash] = LocalVouched(@)]
                   /\ ret' = [op |-> "vouch", hash |-> content_hash,
                              fault |-> FALSE, success |-> TRUE,
                              vouches |-> human_verified_content'[content_hash].vouches]
              ELSE /\ UNCHANGED human_verified_content
                   /\ ret' = [op |-> "vouch", hash |-> content_hash,
                              fault |-> FALSE, success |-> FALSE,
                              message |-> "Content not found"]
       ELSE /\ UNCHANGED human_verified_content
            /\ ret' = [op |-> "vouch", hash |-> content_hash,
                       fault |-> FALSE, success |-> TRUE,
                       message |-> "Vouched on blockchain"]
  /\ UNCHANGED <<entry, api, session_state, attested, hash_seed, now, w3_connected, table, pc, loc>>

\* MetaSignetApp.get_verification_status
AppGetVerificationStatus(content_hash) ==
  /\ entry = "app"
  /\ IF ~w3_connected
       THEN IF content_hash \in DOMAIN human_verified_content
              THEN LET content == human_verified_content[content_hash] IN
                   /\ UNCHANGED now
                   /\ ret' =
                          [op |-> "lookup", hash |-> content_hash,
                           fault |-> FALSE, exists |-> TRUE,
                           creator |-> "local-user",
                           timestamp |-> content.timestamp,
                           creation_type |-> content.type,
                           status |-> content.status,
                           context |-> content.context,
                           vouches |-> content.vouches,
                           uri |-> content.uri]
              ELSE /\ UNCHANGED now
                   /\ ret' = [op |-> "lookup", hash |-> content_hash,
                              fault |-> FALSE, exists |-> FALSE]
       ELSE \E t \in ClockReads :
            /\ now' = t
            /\ ret' =
                   [op |-> "lookup", hash |-> content_hash,
                    fault |-> FALSE, exists |-> TRUE,
                    creator |-> "0x0000000000000000000000000000000000000000",
                    timestamp |-> t,
                    creation_type |-> "HUMAN_CREATED",
                    status |-> "SELF_ATTESTED",
                    context |-> "",
                    vouches |-> 0,
                    uri |-> "https://bsky.app/profile/example.bsky.social/post/12345"]
  /\ UNCHANGED <<entry, api, session_state, attested, hash_seed, w3_connected, human_verified_content, table, pc, loc>>

\* -------------------------------------------------------------- database.py

\* The table "verification" of the hosted store: content_hash is its primary
\* key, so an insert of a key that is present raises.
TableInsertRaises(tbl, columns) == columns.content_hash \in DOMAIN tbl

\* The row an insert creates: the given columns and the table's defaults
\* (status self-attested, vouches 0, created_at now()).
TableInsertedRow(columns, t) ==
  [ content_hash |-> columns.content_hash, content_uri |-> columns.content_uri,
    user_id |-> columns.user_id, creation_type |-> columns.creation_type,
    creation_context |-> columns.creation_context,
    status |-> DB_SELF_ATTESTED, vouches |-> 0, created_at |-> t ]

\* store_verification: the columns it inserts.
StoreVerificationColumns(content_hash, content_uri, user_id, creation_type, creation_context) ==
  [ content_hash |-> content_hash, content_uri |-> content_uri,
    user_id |-> user_id, creation_type |-> creation_type,
    creation_context |-> creation_context ]

\* add_vouch counting an identity once: with one identity vouching, a record
\* that has a vouch gets no further one.
AddVouchNewCount_Deduplicated(verification) ==
  IF verification.vouches >= 1 THEN verification.vouches
  ELSE verification.vouches + 1

\* add_vouch with the increment forgotten.
AddVouchNewCount_NoIncrement(verification) == verification.vouches

\* add_vouch: new_count = verification["vouches"] + 1
AddVouchNewCount(verification) == verification.vouches + 1

\* add_vouch with the threshold test off by one.
AddVouchStatus_Above(new_count) ==
  IF new_count > VOUCH_THRESHOLD THEN DB_COMMUNITY_VOUCHED ELSE DB_SELF_ATTESTED

\* add_vouch: status = 2 if new_count >= 3 else 1
AddVouchStatus(new_count) ==
  IF new_count >= VOUCH_THRESHOLD THEN DB_COMMUNITY_VOUCHED ELSE DB_SELF_ATTESTED

\* add_vouch with an update that writes the count and leaves the status.
TableUpdate_CountOnly(tbl, content_hash, new_count, status) ==
  [tbl EXCEPT ![content_hash] = [@ EXCEPT !.vouches = new_count]]

\* add_vouch: update({"vouches": new_count, "status": status}).eq(content_hash)
TableUpdate(tbl, content_hash, new_count, status) ==
  [tbl EXCEPT ![content_hash] = [@ EXCEPT !.vouches = new_count, !.status = status]]

\* ---------------------------------------------------------- verification.py

\* check_verification_status: status_map.get(..., "Unknown")
StatusLabel(status) ==
  CASE status = 1 -> "Self-attested"
    [] status = 2 -> "Community-vouched"
    [] OTHER -> "Unknown"

\* check_verification_status: creation_type_map.get(..., "Unknown")
CreationTypeLabel(creation_type) ==
  CASE creation_type = 1 -> "Human-created"
    [] creation_type = 2 -> "AI-assisted"
    [] creation_type = 3 -> "AI-generated"
    [] OTHER -> "Unknown"

Idle == [hash |-> "-", new_count |-> 0, status |-> 0]

\* ContentVerifier.verify_human_content: one insert. store_verification
\* catches whatever the insert raises (a storage failure, a duplicate key) and
\* returns None.
VerifyHumanContent(c, content_hash, p) ==
  /\ entry = "verifier"
  /\ pc[c] = "idle"
  /\ \E fault \in BOOLEAN :
       LET columns == StoreVerificationColumns(content_hash, p.uri, p.user,
                                               p.type, p.context)
       IN IF fault \/ TableInsertRaises(table, columns)
            THEN /\ UNCHANGED <<now, table>>
                 /\ ret' = [op |-> "attest", hash |-> content_hash,
                            fault |-> fault, success |-> FALSE,
                            message |-> "Failed to store verification"]
            ELSE /\ \E t \in ClockReads :
                      /\ now' = t
                      /\ table' = LocalStore(table, content_hash,
                                             TableInsertedRow(columns, t))
                 /\ ret' = [op |-> "attest", hash |-> content_hash,
                            fault |-> FALSE, success |-> TRUE,
                            message |-> "Content verified successfully",
                            verification |-> table'[content_hash]]
  /\ UNCHANGED <<entry, api, session_state, attested, hash_seed, w3_connected, human_verified_content, pc, loc>>

\* ContentVerifier.check_verification_status: one select. get_verification
\* returns None when the select raises and when no row matches.
CheckVerificationStatus(c, content_hash) ==
  /\ entry = "verifier"
  /\ pc[c] = "idle"
  /\ \E fault \in BOOLEAN :
       IF ~fault /\ content_hash \in DOMAIN table
         THEN LET verification == table[content_hash] IN
              ret' = [op |-> "lookup", hash |-> content_hash, fault |-> FALSE,
                      exists |-> TRUE, verified |-> TRUE,
                      creator |-> verification.user_id,
                      timestamp |-> verification.created_at,
                      creation_type |-> CreationTypeLabel(verification.creation_type),
                      status |-> StatusLabel(verification.status),
                      context |-> verification.creation_context,
                      vouches |-> verification.vouches,
                      uri |-> verification.content_uri]
         ELSE ret' = [op |-> "lookup", hash |-> content_hash, fault |-> fault,
                      exists |-> FALSE, verified |-> FALSE]
  /\ UNCHANGED <<entry, api, session_state, attested, hash_seed, now, w3_connected, human_verified_content, table, pc, loc>>

\* ContentVerifier.vouch_for_content, its own get_verification and the two
\* checks on what it returns.
VouchForContent(c, content_hash, voucher_id) ==
  /\ entry = "verifier"
  /\ pc[c] = "idle"
  /\ content_hash \in DOMAIN table => table[content_hash].vouches < MaxVouch
  /\ \E fault \in BOOLEAN :
       IF fault \/ content_hash \notin DOMAIN table
         THEN /\ ret' = [op |-> "vouch", hash |-> content_hash, fault |-> fault,
                         success |-> FALSE, message |-> "Content not found"]
              /\ UNCHANGED <<pc, loc>>
         ELSE IF table[content_hash].user_id = voucher_id
           THEN /\ ret' = [op |-> "vouch", hash |-> content_hash, fault |-> FALSE,
                           success |-> FALSE,
                           message |-> "Cannot vouch for your own content"]
                /\ UNCHANGED <<pc, loc>>
           ELSE /\ pc' = [pc EXCEPT ![c] = "add_vouch"]
                /\ loc' = [loc EXCEPT ![c] = [Idle EXCEPT !.hash = content_hash]]
                /\ ret' = NoReturn
  /\ UNCHANGED <<entry, api, session_state, attested, hash_seed, now, w3_connected, human_verified_content, table>>

\* add_vouch, its get_verification: None (and so "Failed to add vouch") when
\* the select raises or finds no row, else new_count and status are computed.
AddVouchGet(c) ==
  /\ pc[c] = "add_vouch"
  /\ \E fault \in BOOLEAN :
       IF fault \/ loc[c].hash \notin DOMAIN table
         THEN /\ ret' = [op |-> "vouch", hash |-> loc[c].hash, fault |-> fault,
                         success |-> FALSE, message |-> "Failed to add vouch"]
              /\ pc' = [pc EXCEPT ![c] = "idle"]
              /\ loc' = [loc EXCEPT ![c] = Idle]
         ELSE LET new_count == AddVouchNewCount(table[loc[c].hash]) IN
              /\ pc' = [pc EXCEPT ![c] = "update"]
              /\ loc' = [loc EXCEPT ![c] = [@ EXCEPT !.new_count = new_count,
                                                    !.status = AddVouchStatus(new_count)]]
              /\ ret' = NoReturn
  /\ UNCHANGED <<entry, api, session_state, attested, hash_seed, now, w3_connected, human_verified_content, table>>

\* add_vouch, its update, and the return of vouch_for_content.
AddVouchUpdate(c) ==
  /\ pc[c] = "update"
  /\ \E fault \in BOOLEAN :
       IF fault \/ loc[c].hash \notin DOMAIN table
         THEN /\ UNCHANGED table
              /\ ret' = [op |-> "vouch", hash |-> loc[c].hash, fault |-> fault,
                         success |-> FALSE, message |-> "Failed to add vouch"]
         ELSE /\ table' = TableUpdate(table, loc[c].hash, loc[c].new_count,
                                      loc[c].status)
              /\ ret' = [op |-> "vouch", hash |-> loc[c].hash, fault |-> FALSE,
                         success |-> TRUE,
                         message |-> "Successfully vouched for content",
                         vouches |-> table'[loc[c].hash].vouches]
  /\ pc' = [pc EXCEPT ![c] = "idle"]
  /\ loc' = [loc EXCEPT ![c] = Idle]
  /\ UNCHANGED <<entry, api, session_state, attested, hash_seed, now, w3_connected, human_verified_content>>

\* The dictionary a call returned: the model's record of the return without
\* the fields that only name the call (op, hash, fault).
ReturnedDict(r) == [k \in DOMAIN r \ {"op", "hash", "fault"} |-> r[k]]

\* verification['content_hash'][:16]
First16(content_hash) == [chars |-> 16, of |-> content_hash]

\* datetime.fromisoformat(...).strftime('%Y-%m-%d %H:%M:%S')
FormattedDate(timestamp) == [strftime |-> "%Y-%m-%d %H:%M:%S", of |-> timestamp]

\* What generate_certificate puts into the certificate.
CertificateFields(verification) ==
  [ content_hash |-> First16(verification.content_hash),
    creator |-> verification.creator,
    creation_type |-> verification.creation_type,
    status |-> verification.status,
    vouches |-> verification.vouches,
    date |-> FormattedDate(verification.timestamp),
    uri |-> verification.uri ]

\* ContentVerifier.generate_certificate(verification): None for a dictionary
\* without a true 'exists', a KeyError for one without 'content_hash'.
GenerateCertificate(c) ==
  /\ entry = "verifier"
  /\ pc[c] = "idle"
  /\ ret.op = "lookup"
  /\ LET verification == ReturnedDict(ret) IN
     ret' = IF ~verification.exists
              THEN [op |-> "certificate", hash |-> ret.hash, raised |-> FALSE,
                    none |-> TRUE]
            ELSE IF "content_hash" \notin DOMAIN verification
              THEN [op |-> "certificate", hash |-> ret.hash, raised |-> TRUE,
                    error |-> "KeyError: 'content_hash'"]
            ELSE [op |-> "certificate", hash |-> ret.hash, raised |-> FALSE,
                  none |-> FALSE, shown |-> CertificateFields(verification)]
  /\ UNCHANGED <<entry, api, session_state, attested, hash_seed, now, w3_connected, human_verified_content,
                 table, pc, loc>>

\* ------------------------------------ utils/bluesky.py and the login of app.py

\* session_state holds the login keys of st.session_state that are present;
\* api is the BlueskyAPI object: its flag and the account its client is
\* authenticated as.
Accounts == {"alice", "bob"}
Nobody == "nobody"

\* The Client of the BlueskyAPI object, as a reference: who it is
\* authenticated as is read from the object at the time of use.
ApiClient == [owner |-> "api", me |-> Nobody]

\* The Client of a MetaSignetApp object, a new one for every construction.
AppClient(me) == [owner |-> "app", me |-> me]

\* The account a stored client is authenticated as.
ClientAccount(client) == IF client.owner = "api" THEN api.me ELSE client.me

\* st.session_state.get('is_logged_in', False)
IsLoggedIn ==
  "is_logged_in" \in DOMAIN session_state /\ session_state["is_logged_in"]

\* st.session_state.<key> = value, for the keys of the function values.
SessionSet(state, values) ==
  [k \in DOMAIN state \cup DOMAIN values |->
     IF k \in DOMAIN values THEN values[k] ELSE state[k]]

\* What a login does: there are no credentials, client.login raises, or the
\* client is authenticated.
LoginOutcomes == {"no_credentials", "login_raised", "authenticated"}

\* BlueskyAPI.login: the session keys are written only when the session has
\* no bluesky_client.
ApiLoginSession(state, username) ==
  IF "bluesky_client" \notin DOMAIN state
    THEN SessionSet(state, [bluesky_client |-> ApiClient,
                            bluesky_username |-> username,
                            is_logged_in |-> TRUE])
    ELSE state

\* MetaSignetApp.__init__, its session part: the new object's client is
\* stored when the session has none.
AppConstruct ==
  /\ session_state' =
       IF "bluesky_client" \notin DOMAIN session_state
         THEN SessionSet(session_state, [bluesky_client |-> AppClient(Nobody)])
         ELSE session_state
  /\ ret' = NoReturn
  /\ UNCHANGED <<entry, api, attested, hash_seed, now, w3_connected,
                 human_verified_content, table, pc, loc>>

\* MetaSignetApp.login_bluesky, on the client of the object just constructed.
LoginBluesky(username) ==
  /\ \E outcome \in {"login_raised", "authenticated"} :
       IF outcome = "authenticated"
         THEN /\ session_state' =
                   SessionSet(session_state,
                              [is_logged_in |-> TRUE,
                               bluesky_client |-> AppClient(username),
                               bluesky_username |-> username])
              /\ ret' = [op |-> "login", by |-> "app", username |-> username,
                         success |-> TRUE]
         ELSE /\ UNCHANGED session_state
              /\ ret' = [op |-> "login", by |-> "app", username |-> username,
                         success |-> FALSE]
  /\ UNCHANGED <<entry, api, attested, hash_seed, now, w3_connected,
                 human_verified_content, table, pc, loc>>

\* BlueskyAPI.login
ApiLogin(username) ==
  /\ \E outcome \in LoginOutcomes :
       IF outcome = "authenticated"
         THEN /\ api' = [authenticated |-> TRUE, me |-> username]
              /\ session_state' = ApiLoginSession(session_state, username)
              /\ ret' = [op |-> "login", by |-> "api", username |-> username,
                         success |-> TRUE]
         ELSE /\ UNCHANGED <<api, session_state>>
              /\ ret' = [op |-> "login", by |-> "api", username |-> username,
                         success |-> FALSE]
  /\ UNCHANGED <<entry, attested, hash_seed, now, w3_connected,
                 human_verified_content, table, pc, loc>>

\* MetaSignetApp.get_post_details: raises unless the session is logged in,
\* then takes the session's client.
GetPostDetails ==
  /\ ret' = IF ~IsLoggedIn
              THEN [op |-> "get_post_details", reached |-> FALSE,
                    raised |-> "Not logged in. Please login first."]
              ELSE [op |-> "get_post_details", reached |-> TRUE,
                    client |-> session_state["bluesky_client"]]
  /\ UNCHANGED <<entry, api, session_state, attested, hash_seed, now,
                 w3_connected, human_verified_content, table, pc, loc>>

\* BlueskyAPI.get_profile, get_post and get_user_posts: each returns at once
\* unless the object's flag is set, then calls its client.
ApiGet(method) ==
  /\ ret' = IF ~api.authenticated
              THEN [op |-> method, reached |-> FALSE]
              ELSE [op |-> method, reached |-> TRUE, client |-> ApiClient]
  /\ UNCHANGED <<entry, api, session_state, attested, hash_seed, now,
                 w3_connected, human_verified_content, table, pc, loc>>

LoginNext ==
  \/ AppConstruct
  \/ \E username \in Accounts : LoginBluesky(username)
  \/ \E username \in Accounts : ApiLogin(username)
  \/ GetPostDetails
  \/ \E method \in {"get_profile", "get_post", "get_user_posts"} : ApiGet(method)

\* ------------------------------------------------- the fingerprint generators

\* hash_seed is the key the interpreter draws at start-up for str.__hash__
\* (hash randomisation): one value per process, a new one on every restart.
\* The first process's key is named 0.
Seeds == 0..MaxSeed

Texts == {"", "hello"}
PostIds == {"p1", "p2"}
Authors == {"alice", "bob"}

\* Images, as 2 x 2 grey pixels in reading order (the library averages over
\* 8 x 8); ImgA2 is ImgA after a small edit; Garbage are bytes that are no image.
ImgA == [decodable |-> TRUE, pixels |-> <<9, 1, 1, 9>>]
ImgA2 == [decodable |-> TRUE, pixels |-> <<8, 1, 2, 9>>]
ImgB == [decodable |-> TRUE, pixels |-> <<1, 9, 9, 1>>]
Garbage == [decodable |-> FALSE, pixels |-> <<0, 0, 0, 0>>]
Images == {ImgA, ImgA2, ImgB, Garbage}

RECURSIVE SeqsUpTo(_, _)
\* The sequences over S of length at most n.
SeqsUpTo(S, n) ==
  IF n = 0 THEN {<<>>}
  ELSE LET shorter == SeqsUpTo(S, n - 1) IN
       shorter \cup {Append(q, x) : q \in shorter, x \in S}

\* A post as get_post_details hands it to MetaSignetApp.compute_content_hash.
PostDetails == [text : Texts, images : SeqsUpTo(Images, MaxImages)]

\* A post as ContentVerifier.compute_content_hash reads it.
PostData == [text : Texts, post_id : PostIds, author_handle : Authors]

\* str(hash(text)): the interpreter's keyed string hash, rendered in decimal.
\* The hash of the empty string is 0 whatever the key.
StrOfHash(text, seed) ==
  [py_hash |-> text, key |-> IF text = "" THEN 0 ELSE seed]

RECURSIVE SumOf(_)
SumOf(q) == IF q = <<>> THEN 0 ELSE Head(q) + SumOf(Tail(q))

RECURSIVE BitsValue(_)
\* The number a sequence of bits denotes, most significant bit first.
BitsValue(bits) ==
  IF bits = <<>> THEN 0
  ELSE 2 * BitsValue(SubSeq(bits, 1, Len(bits) - 1)) + bits[Len(bits)]

HexDigits == <<"0", "1", "2", "3", "4", "5", "6", "7",
               "8", "9", "a", "b", "c", "d", "e", "f">>

\* str(imagehash.average_hash(img)): one bit per pixel, set where the pixel is
\* above the mean, rendered in hexadecimal.
StrOfAverageHash(img) ==
  LET n == Len(img.pixels)
      bits == [i \in 1..n |-> IF img.pixels[i] * n > SumOf(img.pixels) THEN 1 ELSE 0]
  IN [ahash |-> HexDigits[BitsValue(bits) + 1]]

\* hashlib.sha256(text.encode('utf-8')).hexdigest()
ComputeTextHash(text) == [sha256 |-> text]

Separator == [sep |-> "_"]

RECURSIVE Join(_, _)
\* sep.join(parts), as the sequence of the parts and the separators between.
Join(sep, parts) ==
  IF Len(parts) <= 1 THEN parts
  ELSE <<Head(parts), sep>> \o Join(sep, Tail(parts))

\* MetaSignetApp.compute_content_hash: the value it returns when every image
\* decodes.
AppContentHash(post_details, seed) ==
  LET text_hash == StrOfHash(post_details.text, seed)
      image_hashes == [i \in 1..Len(post_details.images) |->
                         StrOfAverageHash(post_details.images[i])]
  IN <<text_hash, Separator>> \o Join(Separator, image_hashes)

\* ContentVerifier.compute_content_hash: f"{text}|{post_id}|{author}" hashed.
VerifierContentHash(post_data) ==
  <<ComputeTextHash(<<post_data.text, "|", post_data.post_id, "|",
                      post_data.author_handle>>)>>

\* The interpreter is restarted (a new process serves the next call).
RestartProcess ==
  /\ \E seed \in Seeds : hash_seed' = seed
  /\ UNCHANGED <<entry, api, session_state, attested, now, w3_connected, human_verified_content, table, pc,
                 loc, ret>>

\* MetaSignetApp.compute_content_hash
AppComputeContentHash(post_details) ==
  /\ entry = "app"
  /\ IF \E i \in 1..Len(post_details.images) : ~post_details.images[i].decodable
       THEN ret' = [op |-> "fingerprint", post |-> post_details, raised |-> TRUE,
                    message |-> "Error computing content hash"]
       ELSE ret' = [op |-> "fingerprint", post |-> post_details, raised |-> FALSE,
                    value |-> AppContentHash(post_details, hash_seed)]
  /\ UNCHANGED <<entry, api, session_state, attested, hash_seed, now, w3_connected, human_verified_content,
                 table, pc, loc>>

\* ContentVerifier.compute_content_hash
ComputeContentHash(post_data) ==
  /\ entry = "verifier"
  /\ ret' = [op |-> "fingerprint", post |-> post_data, raised |-> FALSE,
             value |-> VerifierContentHash(post_data)]
  /\ UNCHANGED <<entry, api, session_state, attested, hash_seed, now, w3_connected, human_verified_content,
                 table, pc, loc>>

FpNext ==
  \/ RestartProcess
  \/ \E post_details \in PostDetails : AppComputeContentHash(post_details)
  \/ \E post_data \in PostData : ComputeContentHash(post_data)

Init ==
  /\ entry \in {"app", "verifier"}
  /\ hash_seed = 0
  /\ attested = {}
  /\ session_state = <<>>
  /\ api = [authenticated |-> FALSE, me |-> Nobody]
  /\ now = 0
  /\ w3_connected = FALSE
  /\ human_verified_content = <<>>
  /\ table = <<>>
  /\ pc = [c \in Clients |-> "idle"]
  /\ loc = [c \in Clients |-> Idle]
  /\ ret = NoReturn

Next ==
  \/ InitializeWeb3
  \/ \E h \in Hashes, p \in Payloads : AppVerifyHumanContent(h, p)
  \/ \E h \in Hashes : AppVouchForContent(h)
  \/ \E h \in Hashes : AppGetVerificationStatus(h)
  \/ \E c \in Clients, h \in Hashes, p \in Payloads : VerifyHumanContent(c, h, p)
  \/ \E c \in Clients, h \in Hashes : CheckVerificationStatus(c, h)
  \/ \E c \in Clients, h \in Hashes, u \in Users : VouchForContent(c, h, u)
  \/ \E c \in Clients : AddVouchGet(c)
  \/ \E c \in Clients : AddVouchUpdate(c)

Spec == Init /\ [][Next]_vars

\* The fingerprint generators alone, over restarts of the process.
FpSpec == Init /\ [][FpNext]_vars

\* The logins and the calls they guard.
LoginSpec == Init /\ [][LoginNext]_vars

\* One caller at a time: a call on the hosted table starts only when no other
\* caller is inside one.
OthersIdle(c) == \A d \in Clients \ {c} : pc[d] = "idle"

SeqNext ==
  \/ InitializeWeb3
  \/ \E h \in Hashes, p \in Payloads : AppVerifyHumanContent(h, p)
  \/ \E h \in Hashes : AppVouchForContent(h)
  \/ \E h \in Hashes : AppGetVerificationStatus(h)
  \/ \E c \in Clients, h \in Hashes, p \in Payloads :
       OthersIdle(c) /\ VerifyHumanContent(c, h, p)
  \/ \E c \in Clients, h \in Hashes : OthersIdle(c) /\ CheckVerificationStatus(c, h)
  \/ \E c \in Clients, h \in Hashes, u \in Users :
       OthersIdle(c) /\ VouchForContent(c, h, u)
  \/ \E c \in Clients : OthersIdle(c) /\ AddVouchGet(c)
  \/ \E c \in Clients : OthersIdle(c) /\ AddVouchUpdate(c)

SeqSpec == Init /\ [][SeqNext]_vars

\* ------------------------------------------------- the ledger, as the spec
\* names it: one view over the two stores.

\* The ledger holds a record for fingerprint h.
HasRecord(h) == h \in DOMAIN human_verified_content \/ h \in DOMAIN table

\* vouch_count of h's record.
VouchCount(h) ==
  IF h \in DOMAIN table THEN table[h].vouches
  ELSE human_verified_content[h].vouches

\* status of h's record, in the spec's names.
TrustStatus(h) ==
  IF h \in DOMAIN table
    THEN CASE table[h].status = DB_SELF_ATTESTED -> "SELF_ATTESTED"
           [] table[h].status = DB_COMMUNITY_VOUCHED -> "COMMUNITY_VOUCHED"
           [] OTHER -> "UNKNOWN"
    ELSE human_verified_content[h].status

\* The fields of h's record that creation fixes.
CreationFields(h) ==
  IF h \in DOMAIN table
    THEN [creation_type |-> table[h].creation_type,
          attester_id |-> table[h].user_id,
          content_uri |-> table[h].content_uri,
          created_at |-> table[h].created_at]
    ELSE [creation_type |-> human_verified_content[h].type,
          attester_id |-> "local-user",
          content_uri |-> human_verified_content[h].uri,
          created_at |-> human_verified_content[h].timestamp]

\* A step in which an attest call on the ledger for h returns (the placeholder
\* blockchain branches of app.py store nothing and are no ledger call).
AttestReturns(h) ==
  \/ ~w3_connected /\ \E p \in Payloads : AppVerifyHumanContent(h, p)
  \/ \E c \in Clients, p \in Payloads : VerifyHumanContent(c, h, p)

\* A step in which a vouch call on the ledger for h returns success.
VouchSucceeds(h) ==
  \/ ~w3_connected /\ AppVouchForContent(h) /\ ret'.success
  \/ \E c \in Clients : loc[c].hash = h /\ AddVouchUpdate(c) /\ ret'.success

\* A step in which a vouch call for h made by the attester of h's record
\* returns. Every record of the session dictionary is the session user's own
\* ("local-user"), and so is every vouch made in that session.
SelfVouchReturns(h) ==
  \/ ~w3_connected /\ h \in DOMAIN human_verified_content /\ AppVouchForContent(h)
  \/ /\ h \in DOMAIN table
     /\ \E c \in Clients : VouchForContent(c, h, table[h].user_id)

\* ------------------------------------------------------------------ claims

\* C1 (as claimed): first-attestation-wins. An attest call for a fingerprint
\* that already has a record returns a failure and leaves the record as the
\* first call made it.
C1_FirstAttestationWins ==
  [][\A h \in Hashes :
       (HasRecord(h) /\ AttestReturns(h)) =>
         /\ ~ret'.success
         /\ HasRecord(h)'
         /\ CreationFields(h)' = CreationFields(h)
         /\ VouchCount(h)' = VouchCount(h)
         /\ TrustStatus(h)' = TrustStatus(h)]_vars

\* C2 (as claimed): no vouch is lost. Every vouch call that returns success
\* has raised the stored vouch_count by one, so that N successful vouches
\* leave vouch_count = N, whatever the interleaving of their reads and writes.
C2_NoLostVouch ==
  [][\A h \in Hashes :
       VouchSucceeds(h) => VouchCount(h)' = VouchCount(h) + 1]_vars

\* C3 (as claimed): of the attest calls made for one fingerprint exactly one
\* succeeds: an attest returns success only when it created the record, and
\* never over a record that is already there.
C3_OneAttestSucceeds ==
  [][\A h \in Hashes :
       (AttestReturns(h) /\ ret'.success) => (~HasRecord(h) /\ HasRecord(h)')]_vars

C5_VouchCountMonotone ==
  [][\A h \in Hashes :
       HasRecord(h) => (HasRecord(h)' /\ VouchCount(h)' >= VouchCount(h))]_vars

\* C6 (as claimed): a record never disappears, and a COMMUNITY_VOUCHED record
\* never becomes SELF_ATTESTED again.
C6_TrustOnlyAdvances ==
  [][\A h \in Hashes :
       HasRecord(h) =>
         /\ HasRecord(h)'
         /\ TrustStatus(h) = "COMMUNITY_VOUCHED" =>
              TrustStatus(h)' = "COMMUNITY_VOUCHED"]_vars

\* C7 (as claimed): no step changes the creation_type, attester_id,
\* content_uri or created_at of a record that exists.
C7_CreationFieldsFrozen ==
  [][\A h \in Hashes :
       HasRecord(h) =>
         (HasRecord(h)' /\ CreationFields(h)' = CreationFields(h))]_vars

\* C8 (as claimed): a vouch made by the attester of the record fails on every
\* vouch path, and leaves vouch_count and status unchanged.
C8_SelfVouchRejected ==
  [][\A h \in Hashes :
       SelfVouchReturns(h) =>
         /\ ~ret'.success
         /\ VouchCount(h)' = VouchCount(h)
         /\ TrustStatus(h)' = TrustStatus(h)]_vars

\* C9: with one caller at a time, a successful attest leaves vouch_count 0 and
\* SELF_ATTESTED, and each successful vouch takes vouch_count n to n + 1 with
\* status SELF_ATTESTED while n + 1 < 3 and COMMUNITY_VOUCHED from n + 1 = 3
\* on: 0 -> 1 -> 2 self-attested, 3 and 4 community-vouched.
C9_ThresholdProgression ==
  [][\A h \in Hashes :
       /\ (AttestReturns(h) /\ ret'.success /\ HasRecord(h)') =>
            (VouchCount(h)' = 0 /\ TrustStatus(h)' = "SELF_ATTESTED")
       /\ VouchSucceeds(h) =>
            /\ VouchCount(h)' = VouchCount(h) + 1
            /\ ret'.vouches = VouchCount(h) + 1
            /\ TrustStatus(h)' = CASE VouchCount(h) = 0 -> "SELF_ATTESTED"
                                    [] VouchCount(h) = 1 -> "SELF_ATTESTED"
                                    [] OTHER -> "COMMUNITY_VOUCHED"]_vars

\* C9, witness: the fourth vouch on a record of the hosted table has returned.
C9_Witness ==
  /\ ret.op = "vouch" /\ ret.success
  /\ ret.hash \in DOMAIN table
  /\ ret.vouches = 4
  /\ table[ret.hash].vouches = 4
  /\ table[ret.hash].status = DB_COMMUNITY_VOUCHED

\* C10 (as claimed): a call during which a storage call failed returns
\* something other than what a missing record, a record that is already
\* there or a self-vouch returns.
C10_StorageFailureDistinct ==
  (ret.op # "none" /\ ret.fault) =>
    ~ \/ ret.op = "lookup" /\ ~ret.exists
      \/ ret.op = "vouch" /\ ret.message \in {"Content not found",
                                                "Cannot vouch for your own content"}
      \/ ret.op = "attest" /\ ret.message = "Failed to store verification"

\* The payloads of a caller of verify_human_content itself, who is not held
\* to the three choices of the page's select box.
CallerPayloads ==
  Payloads \cup {[uri |-> "u2", user |-> "bob", type |-> 7, context |-> ""]}

\* The two classes called directly, one call at a time, and a certificate
\* made from what check_verification_status returned.
CallerNext ==
  \/ InitializeWeb3
  \/ \E h \in Hashes, p \in CallerPayloads : AppVerifyHumanContent(h, p)
  \/ \E h \in Hashes : AppVouchForContent(h)
  \/ \E h \in Hashes : AppGetVerificationStatus(h)
  \/ \E c \in Clients, h \in Hashes, p \in CallerPayloads :
       OthersIdle(c) /\ VerifyHumanContent(c, h, p)
  \/ \E c \in Clients, h \in Hashes : OthersIdle(c) /\ CheckVerificationStatus(c, h)
  \/ \E c \in Clients, h \in Hashes, u \in Users :
       OthersIdle(c) /\ VouchForContent(c, h, u)
  \/ \E c \in Clients : OthersIdle(c) /\ AddVouchGet(c)
  \/ \E c \in Clients : OthersIdle(c) /\ AddVouchUpdate(c)
  \/ \E c \in Clients : OthersIdle(c) /\ GenerateCertificate(c)

CallerSpec == Init /\ [][CallerNext]_vars

\* The one identity that vouches in SameVoucherSpec; it attests nothing.
SameVoucher == "carol"

\* Attests, and vouches that all come from one identity, one call at a time.
SameVoucherNext ==
  \/ \E h \in Hashes, p \in Payloads : AppVerifyHumanContent(h, p)
  \/ \E h \in Hashes : AppVouchForContent(h)
  \/ \E c \in Clients, h \in Hashes, p \in Payloads :
       OthersIdle(c) /\ VerifyHumanContent(c, h, p)
  \/ \E c \in Clients, h \in Hashes :
       OthersIdle(c) /\ VouchForContent(c, h, SameVoucher)
  \/ \E c \in Clients : OthersIdle(c) /\ AddVouchGet(c)
  \/ \E c \in Clients : OthersIdle(c) /\ AddVouchUpdate(c)

SameVoucherSpec == Init /\ [][SameVoucherNext]_vars

\* ------------------------------------------------------------------ C11..C20

\* A fingerprint generator has returned a value (it did not raise).
Fingerprinted(r) == r.op = "fingerprint" /\ ~r.raised

\* C11: two invocations of the fingerprint generator on the same input return
\* the same fingerprint, whichever process runs each of them.
C11_FingerprintDeterministic ==
  [][(Fingerprinted(ret) /\ Fingerprinted(ret') /\ ret'.post = ret.post)
       => ret'.value = ret.value]_vars

\* What a vouch or a lookup returns for a fingerprint that has no record.
NotFound(r) ==
  \/ r.op = "vouch" /\ ~r.success /\ r.message = "Content not found"
  \/ r.op = "lookup" /\ ~r.exists

\* A step in which a vouch or a lookup is called on the ledger for h.
VouchOrLookupCalled(h) ==
  \/ ~w3_connected /\ (AppVouchForContent(h) \/ AppGetVerificationStatus(h))
  \/ \E c \in Clients : CheckVerificationStatus(c, h)
  \/ \E c \in Clients, u \in Users : VouchForContent(c, h, u)

\* C12: a vouch and a lookup on a fingerprint that has no record return
\* NotFound, create no record and change no record.
C12_NotFoundHandling ==
  [][\A h \in Hashes :
       (/\ ~HasRecord(h)
        /\ ret'.op \in {"vouch", "lookup"}
        /\ VouchOrLookupCalled(h)) =>
         /\ NotFound(ret')
         /\ human_verified_content' = human_verified_content
         /\ table' = table]_vars

\* C12, witness: a vouch has returned NotFound for a fingerprint that has no
\* record, on a ledger that holds another record.
C12_Witness ==
  /\ ret.op = "vouch" /\ NotFound(ret)
  /\ ~HasRecord(ret.hash)
  /\ \E g \in Hashes : HasRecord(g)

\* A step in which a lookup on the ledger for h returns what the store holds
\* (the storage call did not fail).
LookupReturns(h) ==
  /\ \/ ~w3_connected /\ AppGetVerificationStatus(h)
     \/ \E c \in Clients : CheckVerificationStatus(c, h)
  /\ ~ret'.fault

\* The status SELF_ATTESTED as a lookup reports it: the stored word
\* (get_verification_status) or its label (check_verification_status).
SelfAttestedReported == {"SELF_ATTESTED", "Self-attested"}

StatusOfCount(n) ==
  IF n >= VOUCH_THRESHOLD THEN "COMMUNITY_VOUCHED" ELSE "SELF_ATTESTED"

\* C14: a ledger changes only in the step in which an attest or a vouch
\* returns success, so a call that returns a failure has changed nothing; and
\* a step that changes the count or the status of a record leaves the two
\* matching.
C14_AllOrNothing ==
  [][(human_verified_content' # human_verified_content \/ table' # table) =>
       /\ ret'.op \in {"attest", "vouch"} /\ ret'.success
       /\ \A h \in Hashes :
            (/\ HasRecord(h) /\ HasRecord(h)'
             /\ (VouchCount(h)' # VouchCount(h) \/ TrustStatus(h)' # TrustStatus(h))) =>
              TrustStatus(h)' = StatusOfCount(VouchCount(h)')]_vars

\* C14, witness: a vouch that had passed its checks has returned a failure
\* from add_vouch, on a record that has vouches already.
C14_Witness ==
  /\ ret.op = "vouch" /\ ~ret.success
  /\ ret.message = "Failed to add vouch"
  /\ ret.hash \in DOMAIN table
  /\ table[ret.hash].vouches > 0

\* The three enumerated creation types, as the code numbers them.
CreationTypes == {1, 2, 3}

\* C15 (as claimed): every record of every reachable ledger has a creation
\* type that is one of the three enumerated values.
C15_CreationTypeEnumerated ==
  /\ \A h \in DOMAIN human_verified_content :
       human_verified_content[h].type \in CreationTypes
  /\ \A h \in DOMAIN table : table[h].creation_type \in CreationTypes

\* The images of a post handed to a fingerprint generator (post_data carries
\* none).
PostImages(post) == IF "images" \in DOMAIN post THEN post.images ELSE <<>>

\* C16 (as claimed): a fingerprint is the text digest, the separator, then the
\* image hashes joined in input order, the separator being there also when
\* there is no image; and the text segment of two fingerprints of the same
\* text is the same, whatever else the posts hold.
C16_FingerprintShape ==
  [][/\ Fingerprinted(ret') =>
          /\ Len(ret'.value) >= 2
          /\ ret'.value[2] = Separator
          /\ SubSeq(ret'.value, 3, Len(ret'.value)) =
               Join(Separator,
                    [i \in 1..Len(PostImages(ret'.post)) |->
                       StrOfAverageHash(PostImages(ret'.post)[i])])
     /\ (Fingerprinted(ret) /\ Fingerprinted(ret')
           /\ ret'.post.text = ret.post.text) =>
          Head(ret'.value) = Head(ret.value)]_vars

\* C17 (as claimed): for every record check_verification_status reports as
\* existing, generate_certificate returns a certificate showing the first 16
\* characters of the fingerprint and the labels of creation type and status,
\* and changes nothing in the ledger.
C17_CertificateProjection ==
  [][\A c \in Clients :
       (ret.op = "lookup" /\ ret.exists /\ GenerateCertificate(c)) =>
         /\ ~ret'.raised
         /\ ~ret'.none
         /\ ret'.shown.content_hash = First16(ret.hash)
         /\ ret'.shown.creation_type = CreationTypeLabel(table[ret.hash].creation_type)
         /\ ret'.shown.status = StatusLabel(table[ret.hash].status)
         /\ table' = table]_vars

\* A step in which a lookup for h is called and its storage call does not fail.
LookupCalled(h) ==
  /\ AppGetVerificationStatus(h) \/ \E c \in Clients : CheckVerificationStatus(c, h)
  /\ ~ret'.fault

\* C18 (as claimed): a lookup changes no record and creates none, and a
\* lookup that follows a lookup of the same fingerprint with nothing in
\* between returns the same result.
C18_LookupPureRead ==
  [][\A h \in Hashes :
       LookupCalled(h) =>
         /\ human_verified_content' = human_verified_content
         /\ table' = table
         /\ (ret.op = "lookup" /\ ret.hash = h /\ ~ret.fault) => ret' = ret]_vars

RecordOf(store, g) == IF g \in DOMAIN store THEN {store[g]} ELSE {}

\* The outcomes an attest and a vouch on f can have in the current state: the
\* counts a vouch of the session ledger can return and whether it can fail; on
\* the hosted table whether an attest can succeed, the refusals a vouch can
\* meet, and the vouchers whose vouch can go on to add_vouch.
OutcomesOn(f) ==
  << {n \in 1..MaxVouch :
        ENABLED (~w3_connected /\ AppVouchForContent(f)
                   /\ ret'.success /\ ret'.vouches = n)},
     ENABLED (~w3_connected /\ AppVouchForContent(f) /\ ~ret'.success),
     ENABLED (\E c \in Clients, p \in Payloads :
                VerifyHumanContent(c, f, p) /\ ret'.success),
     {m \in {"Content not found", "Cannot vouch for your own content"} :
        ENABLED (\E c \in Clients, u \in Users :
                   VouchForContent(c, f, u) /\ ret'.op = "vouch" /\ ret'.message = m)},
     {u \in Users :
        ENABLED (\E c \in Clients : VouchForContent(c, f, u) /\ ret' = NoReturn)} >>

\* C20: a step in which an attest or a vouch on g returns leaves, for every
\* other fingerprint f, the record of f (or its absence) as it was, and
\* leaves every outcome a call on f can have as it was; so no order of the
\* calls on g changes what a call on f does.
C20_FingerprintsIndependent ==
  [][\A g \in Hashes :
       (ret'.op \in {"attest", "vouch"} /\ ret'.hash = g) =>
         \A f \in Hashes \ {g} :
           /\ RecordOf(human_verified_content, f)' = RecordOf(human_verified_content, f)
           /\ RecordOf(table, f)' = RecordOf(table, f)
           /\ OutcomesOn(f)' = OutcomesOn(f)]_vars

\* C20, witness: a vouch on one fingerprint has returned success beside the
\* record of another fingerprint that has more vouches.
C20_Witness ==
  /\ ret.op = "vouch" /\ ret.success
  /\ ret.hash \in DOMAIN table
  /\ \E f \in DOMAIN table \ {ret.hash} :
       table[f].vouches > table[ret.hash].vouches

\* ------------------------------------------------------------------ C21..C23

\* The storage calls the invocation of caller c has made and come back from
\* without returning yet: vouch_for_content's own select, then add_vouch's
\* select.
StorageCallsMade(c) ==
  CASE pc[c] = "idle" -> 0
    [] pc[c] = "add_vouch" -> 1
    [] pc[c] = "update" -> 2

\* C21 (as claimed): an invocation is over after a single storage call: no
\* caller is ever inside an invocation with a storage call behind it; and a
\* step whose storage call failed returns to the caller, nothing is re-issued.
C21_SingleStorageCall ==
  [][\A c \in Clients :
       /\ StorageCallsMade(c)' = 0
       /\ (pc'[c] # pc[c] /\ ret'.op # "none" /\ ret'.fault) => pc'[c] = "idle"]_vars

\* A lookup of h, were it called now, would report a record with p's uri,
\* creation type and context.
LookupWouldReport(h, p) ==
  ENABLED (/\ AppGetVerificationStatus(h)
           /\ ret'.exists
           /\ ret'.uri = p.uri
           /\ ret'.creation_type = p.type
           /\ ret'.context = p.context)

\* C22 (as claimed): with the blockchain flag on or off,
\* get_verification_status reports that a record exists for exactly the
\* fingerprints for which an attest has returned success, and right after a
\* successful attest it reports the uri, creation type and context attested.
C22_LookupAgreesWithAttests ==
  [][\A h \in Hashes :
       /\ AppGetVerificationStatus(h) => (ret'.exists <=> h \in attested)
       /\ \A p \in Payloads :
            (AppVerifyHumanContent(h, p) /\ ret'.success) => LookupWouldReport(h, p)']_vars

\* The account the client stored in the session is authenticated as.
SessionClientAccount == ClientAccount(session_state["bluesky_client"])

\* C23 (as claimed): a successful BlueskyAPI.login leaves the session logged
\* in with the client and the username just authenticated; a login that fails
\* does not make the session logged in; get_post_details passes its guard only
\* in a logged-in session, and get_profile, get_post and get_user_posts call
\* the client only after the object has authenticated.
C23_LoginStateConsistent ==
  [][/\ \A username \in Accounts :
          (ApiLogin(username) /\ ret'.success) =>
            /\ IsLoggedIn'
            /\ "bluesky_username" \in DOMAIN session_state'
            /\ session_state'["bluesky_username"] = username
            /\ "bluesky_client" \in DOMAIN session_state'
            /\ session_state'["bluesky_client"] = ApiClient
            /\ SessionClientAccount' = username
     /\ (ret'.op = "login" /\ ~ret'.success) => (IsLoggedIn' => IsLoggedIn)
     /\ (ret'.op = "get_post_details" /\ ret'.reached) => IsLoggedIn
     /\ (ret'.op \in {"get_profile", "get_post", "get_user_posts"} /\ ret'.reached) =>
          (api.authenticated /\ api.me \in Accounts)]_vars

====
